---- MODULE Spec2Model ----
(***************************************************************************)
(* Model of tuicom's session core (src/src/app.rs) and of the host loop    *)
(* that drives it (src/src/lib.rs, run_app).                               *)
(*                                                                         *)
(* Strings are sequences of Unicode code points, bytes are 0..255, time is *)
(* in milliseconds.  One Tick step is one whole call of App::update.       *)
(***************************************************************************)
EXTENDS Integers, Sequences, FiniteSets, TLC

VARIABLES
    mode,       \* App.mode
    is_hex,     \* App.is_hex
    connected,  \* App.connected
    tx_out,     \* App.tx_out
    rx_buf,     \* App.rx_buf
    rx_out,     \* App.rx_out
    cursor,     \* App.cursor
    now,        \* the wall clock read by Instant::now()
    pc,         \* position of run_app: "poll", "draw", "leave", "done"
    ev,         \* the event handed to the last call of App::update
    ret,        \* what the last call of App::update returned
    io,         \* the device operations the last call of App::update issued
    echoed,     \* every character echoed so far, in the order it was typed
    ticks,      \* number of calls of App::update so far
    loop_res,   \* run_app's `res`: how the loop ended
    out         \* what run_app returned

vars == <<mode, is_hex, connected, tx_out, rx_buf, rx_out, cursor, now, pc,
          ev, ret, io, echoed, ticks, loop_res, out>>

----------------------------------------------------------------------------
(* Bounds of the model *)

MaxTicks == 3
MaxRx == 2

\* wall-clock time that can pass between two reads of the clock
Elapsed == {250, 501}

\* bytes the device can deliver: tab and 'J' (0x4A)
Bytes == {9, 74}

----------------------------------------------------------------------------
(* Program constants *)

BLINK_SPEED == 500
POLL_MS == 16
INSERT == 9614
NORMAL == 9609

SPACE == 32
TAB == 9
NEWLINE == 10

----------------------------------------------------------------------------
(* Events *)

NoEvent == [kind |-> "None", code |-> "-", ch |-> 0]
Resize == [kind |-> "Resize", code |-> "-", ch |-> 0]
KeyOf(code, ch) == [kind |-> "Key", code |-> code, ch |-> ch]

Ch_q == 113
Ch_i == 105
Ch_h == 104
Ch_n == 110
Ch_y == 121

\* the characters handle_key names, and U+00E9, whose UTF-8 encoding takes
\* two bytes
KeyChars == {Ch_q, Ch_i, Ch_h, Ch_n, Ch_y, 233}

Keys == {KeyOf("Char", c) : c \in KeyChars}
          \cup {KeyOf("Esc", 0), KeyOf("Tab", 0), KeyOf("Enter", 0), KeyOf("F1", 0)}

Events == {NoEvent, Resize} \cup Keys

----------------------------------------------------------------------------
(* Codec *)

HexDigit(n) == IF n < 10 THEN 48 + n ELSE 55 + n

\* mutant: lowercase digits, as {byte:02x} would print
push_hex_lowercase(s, byte) ==
    LET d(n) == IF n < 10 THEN 48 + n ELSE 87 + n
    IN  s \o <<d(byte \div 16), d(byte % 16), SPACE>>

push_hex(s, byte) == s \o <<HexDigit(byte \div 16), HexDigit(byte % 16), SPACE>>

push_ascii(s, byte) ==
    IF byte = TAB THEN s \o <<SPACE, SPACE, SPACE, SPACE>> ELSE Append(s, byte)

RECURSIVE push_all_hex(_, _)
push_all_hex(s, bytes) ==
    IF bytes = <<>> THEN s
    ELSE push_all_hex(push_hex(s, Head(bytes)), Tail(bytes))

RECURSIVE push_all_ascii(_, _)
push_all_ascii(s, bytes) ==
    IF bytes = <<>> THEN s
    ELSE push_all_ascii(push_ascii(s, Head(bytes)), Tail(bytes))

encode_utf8(c) ==
    IF c < 128 THEN <<c>>
    ELSE IF c < 2048 THEN <<192 + (c \div 64), 128 + (c % 64)>>
    ELSE <<224 + (c \div 4096), 128 + ((c \div 64) % 64), 128 + (c % 64)>>

Pop(s) == IF s = <<>> THEN s ELSE SubSeq(s, 1, Len(s) - 1)

----------------------------------------------------------------------------
(* Cursor *)

Cursor_normal == [kind |-> "Normal", on |-> FALSE, timer |-> 0, last |-> 0]

Cursor_insert(t) == [kind |-> "Insert", on |-> TRUE, timer |-> 0, last |-> t]

\* mutant: the visibility flips as soon as the interval is reached
Cursor_update_at_interval(c, key_pressed, t) ==
    IF c.kind = "Insert"
    THEN IF key_pressed
         THEN [c EXCEPT !.on = TRUE, !.timer = 0]
         ELSE LET tm == c.timer + (t - c.last)
              IN  IF tm >= BLINK_SPEED
                  THEN [c EXCEPT !.on = ~c.on, !.timer = tm - BLINK_SPEED, !.last = t]
                  ELSE [c EXCEPT !.timer = tm, !.last = t]
    ELSE c

\* mutant: a key press zeroes the timer but leaves the visibility alone
Cursor_update_keeps_on(c, key_pressed, t) ==
    IF c.kind = "Insert"
    THEN IF key_pressed
         THEN [c EXCEPT !.timer = 0]
         ELSE LET tm == c.timer + (t - c.last)
              IN  IF tm > BLINK_SPEED
                  THEN [c EXCEPT !.on = ~c.on, !.timer = tm - BLINK_SPEED, !.last = t]
                  ELSE [c EXCEPT !.timer = tm, !.last = t]
    ELSE c

Cursor_update(c, key_pressed, t) ==
    IF c.kind = "Insert"
    THEN IF key_pressed
         THEN [c EXCEPT !.on = TRUE, !.timer = 0]
         ELSE LET tm == c.timer + (t - c.last)
              IN  IF tm > BLINK_SPEED
                  THEN [c EXCEPT !.on = ~c.on, !.timer = tm - BLINK_SPEED, !.last = t]
                  ELSE [c EXCEPT !.timer = tm, !.last = t]
    ELSE c

Cursor_cursor(c) ==
    IF c.kind = "Normal" THEN NORMAL
    ELSE IF c.on THEN INSERT ELSE SPACE

----------------------------------------------------------------------------
(* Device: what the serial port answers during one tick *)

\* one device operation: its name, its outcome, the count it reported or
\* was asked for, and the bytes written or delivered
IoOp(op, res, n, data) == [op |-> op, res |-> res, n |-> n, data |-> data]

BytesUpTo(n) == UNION {[1..k -> Bytes] : k \in 0..n}

\* What the device answers during one tick.  write: whether write_all
\* succeeds; query: the answer of bytes_to_read, n the count it reports;
\* read: whether read_exact succeeds; data: the bytes read_exact stored
\* (all n when it succeeds, fewer when it fails)
Dev(w, q, n, r, d) == [write |-> w, query |-> q, n |-> n, read |-> r, data |-> d]

----------------------------------------------------------------------------
(* App *)

App == [mode |-> mode, is_hex |-> is_hex, connected |-> connected,
        tx_out |-> tx_out, rx_buf |-> rx_buf, rx_out |-> rx_out,
        cursor |-> cursor, io |-> <<>>]

App_new == [mode |-> "Normal", is_hex |-> FALSE, connected |-> TRUE,
            tx_out |-> <<>>, rx_buf |-> <<>>, rx_out |-> <<>>,
            cursor |-> Cursor_normal, io |-> <<>>]

Ok(a, ctl) == [app |-> a, res |-> "Ok", ctl |-> ctl]
Err(a) == [app |-> a, res |-> "Err", ctl |-> "-"]

\* mutant: the display buffer is not cleared before it is regenerated
switch_hex_no_clear(a) ==
    LET h == ~a.is_hex
    IN  [a EXCEPT !.is_hex = h,
                  !.rx_out = IF h THEN push_all_hex(a.rx_out, a.rx_buf)
                             ELSE push_all_ascii(a.rx_out, a.rx_buf)]

switch_hex(a) ==
    LET h == ~a.is_hex
    IN  [a EXCEPT !.is_hex = h,
                  !.rx_out = IF h THEN push_all_hex(<<>>, a.rx_buf)
                             ELSE push_all_ascii(<<>>, a.rx_buf)]

enter_insert(a, t) == [a EXCEPT !.mode = "Insert", !.cursor = Cursor_insert(t)]

\* mutant: the mode changes but the cursor keeps blinking
leave_insert_keeps_cursor(a) == [a EXCEPT !.mode = "Normal"]

leave_insert(a) == [a EXCEPT !.mode = "Normal", !.cursor = Cursor_normal]

tx_push_char(a, c) ==
    [a EXCEPT !.tx_out = Append(Append(Pop(a.tx_out), c), Cursor_cursor(a.cursor))]

tx_push_str(a, s) ==
    [a EXCEPT !.tx_out = Append(Pop(a.tx_out) \o s, Cursor_cursor(a.cursor))]

serial_write_all(a, bytes, dev) ==
    [a EXCEPT !.io = Append(a.io,
        IoOp("write_all", IF dev.write THEN "Ok" ELSE "Err", Len(bytes), bytes))]

\* mutant: the character is echoed whether or not the write succeeded
send_char_echoes_anyway(a, c, dev) ==
    LET w == serial_write_all(a, encode_utf8(c), dev)
    IN  IF dev.write THEN Ok(tx_push_char(w, c), "Continue") ELSE Err(tx_push_char(w, c))

send_char(a, c, dev) ==
    LET w == serial_write_all(a, encode_utf8(c), dev)
    IN  IF dev.write THEN Ok(tx_push_char(w, c), "Continue") ELSE Err(w)

\* mutant: the text shown is what goes on the wire
send_char_but_show_sends_shown(a, c, show, dev) ==
    LET w == serial_write_all(a, show, dev)
    IN  IF dev.write THEN Ok(tx_push_str(w, show), "Continue") ELSE Err(w)

send_char_but_show(a, c, show, dev) ==
    LET w == serial_write_all(a, encode_utf8(c), dev)
    IN  IF dev.write THEN Ok(tx_push_str(w, show), "Continue") ELSE Err(w)

IsChar(key, c) == key.code = "Char" /\ key.ch = c

\* enum Mode
Mode == {"Normal", "Insert", "Config", "WannaQuit"}

\* the arms of handle_key's match on self.mode
handle_key_insert(a, key, dev) ==
    CASE key.code = "Esc" -> Ok(leave_insert(a), "Continue")
      [] key.code = "Char" -> send_char(a, key.ch, dev)
      [] key.code = "Tab" -> send_char_but_show(a, TAB, <<SPACE, SPACE, SPACE, SPACE>>, dev)
      [] key.code = "Enter" -> send_char(a, NEWLINE, dev)
      [] OTHER -> Ok(a, "Continue")

\* mutant: F1 opens the configuration screen
handle_key_normal_opens_config(a, key, t) ==
    CASE key.code = "Esc" \/ IsChar(key, Ch_q) -> Ok([a EXCEPT !.mode = "WannaQuit"], "Continue")
      [] IsChar(key, Ch_i) -> Ok(enter_insert(a, t), "Continue")
      [] IsChar(key, Ch_h) -> Ok(switch_hex(a), "Continue")
      [] key.code = "F1" -> Ok([a EXCEPT !.mode = "Config"], "Continue")
      [] OTHER -> Ok(a, "Continue")

\* mutant: 'q' asks the host to stop at once, without the confirmation
handle_key_normal_quits(a, key, t) ==
    CASE key.code = "Esc" -> Ok([a EXCEPT !.mode = "WannaQuit"], "Continue")
      [] IsChar(key, Ch_q) -> Ok(a, "Exit")
      [] IsChar(key, Ch_i) -> Ok(enter_insert(a, t), "Continue")
      [] IsChar(key, Ch_h) -> Ok(switch_hex(a), "Continue")
      [] OTHER -> Ok(a, "Continue")

handle_key_normal(a, key, t) ==
    CASE key.code = "Esc" \/ IsChar(key, Ch_q) -> Ok([a EXCEPT !.mode = "WannaQuit"], "Continue")
      [] IsChar(key, Ch_i) -> Ok(enter_insert(a, t), "Continue")
      [] IsChar(key, Ch_h) -> Ok(switch_hex(a), "Continue")
      [] OTHER -> Ok(a, "Continue")

\* mutant: 'q' is not among the keys that cancel the confirmation
handle_key_wanna_quit_no_q(a, key) ==
    CASE key.code = "Esc" \/ IsChar(key, Ch_n) -> Ok([a EXCEPT !.mode = "Normal"], "Continue")
      [] IsChar(key, Ch_y) -> Ok(a, "Exit")
      [] OTHER -> Ok(a, "Continue")

\* mutant: cancelling the confirmation wipes the received text
handle_key_wanna_quit_clears(a, key) ==
    CASE key.code = "Esc" \/ IsChar(key, Ch_n) \/ IsChar(key, Ch_q) ->
             Ok([a EXCEPT !.mode = "Normal", !.rx_out = <<>>], "Continue")
      [] IsChar(key, Ch_y) -> Ok(a, "Exit")
      [] OTHER -> Ok(a, "Continue")

handle_key_wanna_quit(a, key) ==
    CASE key.code = "Esc" \/ IsChar(key, Ch_n) \/ IsChar(key, Ch_q) ->
             Ok([a EXCEPT !.mode = "Normal"], "Continue")
      [] IsChar(key, Ch_y) -> Ok(a, "Exit")
      [] OTHER -> Ok(a, "Continue")

handle_key(a, key, t, dev) ==
    CASE a.mode = "Insert" -> handle_key_insert(a, key, dev)
      [] a.mode = "Normal" -> handle_key_normal(a, key, t)
      [] a.mode = "WannaQuit" -> handle_key_wanna_quit(a, key)
      [] OTHER -> Ok(a, "Continue")

\* rx_buf.resize(len + bytes, 0)
resize(buf, n) == buf \o [i \in 1..n |-> 0]

\* mutant: the bytes are stored from the start of the history
read_into_from_start(buf, len, data) ==
    [i \in 1..Len(buf) |-> IF i <= Len(data) THEN data[i] ELSE buf[i]]

\* read_exact(&mut rx_buf[len..]): the bytes stored overwrite the region's head
read_into(buf, len, data) ==
    [i \in 1..Len(buf) |->
        IF i > len /\ i <= len + Len(data) THEN data[i - len] ELSE buf[i]]

\* mutant: every error of the query is taken for 'no device'
get_data_any_error_disconnects(a, dev) ==
    LET q == [a EXCEPT !.io = Append(a.io,
                 IoOp("bytes_to_read", dev.query, IF dev.query = "Ok" THEN dev.n ELSE 0, <<>>))]
    IN  IF dev.query # "Ok" THEN Ok([q EXCEPT !.connected = FALSE], "-")
        ELSE LET len == Len(a.rx_buf)
                 r == [q EXCEPT
                         !.rx_buf = read_into(resize(a.rx_buf, dev.n), len, dev.data),
                         !.io = Append(q.io,
                             IoOp("read_exact", IF dev.read THEN "Ok" ELSE "Err",
                                  dev.n, dev.data))]
                 new == SubSeq(r.rx_buf, len + 1, Len(r.rx_buf))
             IN  IF dev.read
                 THEN Ok([r EXCEPT !.rx_out = IF a.is_hex
                                              THEN push_all_hex(a.rx_out, new)
                                              ELSE push_all_ascii(a.rx_out, new)], "-")
                 ELSE Err(r)

\* mutant: 'no device' clears the flag but the read goes ahead
get_data_nodevice_reads(a, dev) ==
    LET q == [a EXCEPT !.io = Append(a.io,
                 IoOp("bytes_to_read", dev.query, IF dev.query = "Ok" THEN dev.n ELSE 0, <<>>)),
                       !.connected = IF dev.query = "NoDevice" THEN FALSE ELSE a.connected]
    IN  IF dev.query = "Err" THEN Err(q)
        ELSE LET len == Len(a.rx_buf)
                 r == [q EXCEPT
                         !.rx_buf = read_into(resize(a.rx_buf, dev.n), len, dev.data),
                         !.io = Append(q.io,
                             IoOp("read_exact", IF dev.read THEN "Ok" ELSE "Err",
                                  dev.n, dev.data))]
                 new == SubSeq(r.rx_buf, len + 1, Len(r.rx_buf))
             IN  IF dev.read
                 THEN Ok([r EXCEPT !.rx_out = IF a.is_hex
                                              THEN push_all_hex(a.rx_out, new)
                                              ELSE push_all_ascii(a.rx_out, new)], "-")
                 ELSE Err(r)

\* mutant: every tick renders the whole history again, not the new bytes
get_data_renders_history(a, dev) ==
    LET q == [a EXCEPT !.io = Append(a.io,
                 IoOp("bytes_to_read", dev.query, IF dev.query = "Ok" THEN dev.n ELSE 0, <<>>))]
    IN  CASE dev.query = "NoDevice" -> Ok([q EXCEPT !.connected = FALSE], "-")
          [] dev.query = "Err" -> Err(q)
          [] OTHER ->
               LET len == Len(a.rx_buf)
                   r == [q EXCEPT
                           !.rx_buf = read_into(resize(a.rx_buf, dev.n), len, dev.data),
                           !.io = Append(q.io,
                               IoOp("read_exact", IF dev.read THEN "Ok" ELSE "Err",
                                    dev.n, dev.data))]
               IN  IF dev.read
                   THEN Ok([r EXCEPT !.rx_out = IF a.is_hex
                                                THEN push_all_hex(a.rx_out, r.rx_buf)
                                                ELSE push_all_ascii(a.rx_out, r.rx_buf)], "-")
                   ELSE Err(r)

\* mutant: a query that is answered sets the flag again
get_data_reconnects(a, dev) ==
    LET q == [a EXCEPT !.io = Append(a.io,
                 IoOp("bytes_to_read", dev.query, IF dev.query = "Ok" THEN dev.n ELSE 0, <<>>))]
    IN  CASE dev.query = "NoDevice" -> Ok([q EXCEPT !.connected = FALSE], "-")
          [] dev.query = "Err" -> Err(q)
          [] OTHER ->
               LET len == Len(a.rx_buf)
                   r == [q EXCEPT
                           !.connected = TRUE,
                           !.rx_buf = read_into(resize(a.rx_buf, dev.n), len, dev.data),
                           !.io = Append(q.io,
                               IoOp("read_exact", IF dev.read THEN "Ok" ELSE "Err",
                                    dev.n, dev.data))]
                   new == SubSeq(r.rx_buf, len + 1, Len(r.rx_buf))
               IN  IF dev.read
                   THEN Ok([r EXCEPT !.rx_out = IF a.is_hex
                                                THEN push_all_hex(a.rx_out, new)
                                                ELSE push_all_ascii(a.rx_out, new)], "-")
                   ELSE Err(r)

\* mutant: 'no device' is propagated like any other error
get_data_nodevice_fatal(a, dev) ==
    LET q == [a EXCEPT !.io = Append(a.io,
                 IoOp("bytes_to_read", dev.query, IF dev.query = "Ok" THEN dev.n ELSE 0, <<>>))]
    IN  IF dev.query # "Ok" THEN Err(q)
        ELSE LET len == Len(a.rx_buf)
                 r == [q EXCEPT
                         !.rx_buf = read_into(resize(a.rx_buf, dev.n), len, dev.data),
                         !.io = Append(q.io,
                             IoOp("read_exact", IF dev.read THEN "Ok" ELSE "Err",
                                  dev.n, dev.data))]
                 new == SubSeq(r.rx_buf, len + 1, Len(r.rx_buf))
             IN  IF dev.read
                 THEN Ok([r EXCEPT !.rx_out = IF a.is_hex
                                              THEN push_all_hex(a.rx_out, new)
                                              ELSE push_all_ascii(a.rx_out, new)], "-")
                 ELSE Err(r)

get_data(a, dev) ==
    LET q == [a EXCEPT !.io = Append(a.io,
                 IoOp("bytes_to_read", dev.query, IF dev.query = "Ok" THEN dev.n ELSE 0, <<>>))]
    IN  CASE dev.query = "NoDevice" -> Ok([q EXCEPT !.connected = FALSE], "-")
          [] dev.query = "Err" -> Err(q)
          [] OTHER ->
               LET len == Len(a.rx_buf)
                   r == [q EXCEPT
                           !.rx_buf = read_into(resize(a.rx_buf, dev.n), len, dev.data),
                           !.io = Append(q.io,
                               IoOp("read_exact", IF dev.read THEN "Ok" ELSE "Err",
                                    dev.n, dev.data))]
                   new == SubSeq(r.rx_buf, len + 1, Len(r.rx_buf))
               IN  IF dev.read
                   THEN Ok([r EXCEPT !.rx_out = IF a.is_hex
                                                THEN push_all_hex(a.rx_out, new)
                                                ELSE push_all_ascii(a.rx_out, new)], "-")
                   ELSE Err(r)

\* mutant: the previous glyph is not removed
update_cursor_no_pop(a, key_pressed, t) ==
    LET c == Cursor_update(a.cursor, key_pressed, t)
    IN  [a EXCEPT !.cursor = c, !.tx_out = Append(a.tx_out, Cursor_cursor(c))]

update_cursor(a, key_pressed, t) ==
    LET c == Cursor_update(a.cursor, key_pressed, t)
    IN  [a EXCEPT !.cursor = c, !.tx_out = Append(Pop(a.tx_out), Cursor_cursor(c))]

update(a, e, t, dev) ==
    LET k == IF e.kind = "Key" THEN handle_key(a, e, t, dev) ELSE Ok(a, "Continue")
        key_pressed == e.kind = "Key"
    IN  IF k.res = "Err" THEN k
        ELSE LET g == get_data(k.app, dev)
             IN  IF g.res = "Err" THEN g
                 ELSE Ok(update_cursor(g.app, key_pressed, t), k.ctl)

----------------------------------------------------------------------------
(* The device answers that matter for a tick: the outcome of a write only  *)
(* when the key is transmitted, of the query only when the tick gets to    *)
(* it, of the read only when there is something to read (read_exact into   *)
(* an empty region returns at once).                                       *)

Transmits(a, e) ==
    a.mode = "Insert" /\ e.kind = "Key" /\ e.code \in {"Char", "Tab", "Enter"}

DevChoices(a, e) ==
    LET room == MaxRx - Len(a.rx_buf)
    IN  (IF Transmits(a, e) THEN {Dev(FALSE, "Ok", 0, TRUE, <<>>)} ELSE {})
        \cup {Dev(TRUE, q, 0, TRUE, <<>>) : q \in {"NoDevice", "Err"}}
        \cup {Dev(TRUE, "Ok", Len(b), TRUE, b) : b \in BytesUpTo(room)}
        \cup UNION {{Dev(TRUE, "Ok", n, FALSE, b) : b \in BytesUpTo(n - 1)} :
                       n \in 1..room}

----------------------------------------------------------------------------
(* Host loop (run_app) *)

Init ==
    /\ mode = App_new.mode
    /\ is_hex = App_new.is_hex
    /\ connected = App_new.connected
    /\ tx_out = App_new.tx_out
    /\ rx_buf = App_new.rx_buf
    /\ rx_out = App_new.rx_out
    /\ cursor = App_new.cursor
    /\ now = 0
    /\ pc = "poll"
    /\ ev = NoEvent
    /\ ret = "None"
    /\ io = <<>>
    /\ echoed = <<>>
    /\ ticks = 0
    /\ loop_res = "-"
    /\ out = "-"

Echo(a, e) ==
    IF ~Transmits(a, e) THEN <<>>
    ELSE IF e.code = "Tab" THEN <<SPACE, SPACE, SPACE, SPACE>>
    ELSE IF e.code = "Enter" THEN <<NEWLINE>>
    ELSE <<e.ch>>

\* The time a tick takes is varied where the code measures it, in
\* Cursor::update without a key press; every other tick is taken to last
\* one poll timeout.
ElapsedFor(a, e) ==
    IF a.cursor.kind = "Insert" /\ e.kind # "Key" THEN Elapsed ELSE {POLL_MS}

Tick ==
    /\ pc = "poll"
    /\ ticks < MaxTicks
    /\ \E a \in {App} :
         \E e \in Events :
           \E dt \in ElapsedFor(a, e) :
           \E dev \in DevChoices(a, e) :
           \E r \in {update(a, e, now + dt, dev)} :
               /\ mode' = r.app.mode
               /\ is_hex' = r.app.is_hex
               /\ connected' = r.app.connected
               /\ tx_out' = r.app.tx_out
               /\ rx_buf' = r.app.rx_buf
               /\ rx_out' = r.app.rx_out
               /\ cursor' = r.app.cursor
               /\ io' = r.app.io
               /\ now' = now + dt
               /\ ev' = e
               /\ ret' = IF r.res = "Err" THEN "Err" ELSE r.ctl
               /\ pc' = IF r.res = "Ok" /\ r.ctl = "Continue" THEN "draw" ELSE "leave"
               /\ echoed' = IF dev.write THEN echoed \o Echo(a, e) ELSE echoed
               /\ ticks' = ticks + 1
               /\ loop_res' = (IF r.res = "Err" THEN "UpdateErr"
                               ELSE IF r.ctl = "Exit" THEN "Ok" ELSE loop_res)
               /\ out' = out

\* event::poll(..)? or event::read()? fails: the iteration ends the loop
\* without a tick
PollFails ==
    /\ pc = "poll"
    /\ ticks < MaxTicks
    /\ pc' = "leave"
    /\ loop_res' = "PollErr"
    /\ UNCHANGED <<mode, is_hex, connected, tx_out, rx_buf, rx_out, cursor, now,
                   ev, ret, io, echoed, ticks, out>>

Draw ==
    /\ pc = "draw"
    /\ \E ok \in BOOLEAN :
         /\ pc' = IF ok THEN "poll" ELSE "leave"
         /\ loop_res' = IF ok THEN loop_res ELSE "DrawErr"
    /\ UNCHANGED <<mode, is_hex, connected, tx_out, rx_buf, rx_out, cursor, now,
                   ev, ret, io, echoed, ticks, out>>

\* leave_tui(terminal)?; res
LeaveTui ==
    /\ pc = "leave"
    /\ pc' = "done"
    /\ \E ok \in BOOLEAN : out' = IF ok THEN loop_res ELSE "LeaveErr"
    /\ UNCHANGED <<mode, is_hex, connected, tx_out, rx_buf, rx_out, cursor, now,
                   ev, ret, io, echoed, ticks, loop_res>>

Next == Tick \/ PollFails \/ Draw \/ LeaveTui

Spec == Init /\ [][Next]_vars

----------------------------------------------------------------------------
(* Properties *)

\* a step that is one call of App::update
TickStep == ticks' = ticks + 1

KeyEsc == KeyOf("Esc", 0)
KeyTab == KeyOf("Tab", 0)
KeyChar(c) == KeyOf("Char", c)

\* the transition table of section 4.1
TableMode(m, e) ==
    CASE e.kind # "Key" -> m
      [] m = "Normal" /\ e \in {KeyEsc, KeyChar(Ch_q)} -> "WannaQuit"
      [] m = "Normal" /\ e = KeyChar(Ch_i) -> "Insert"
      [] m = "Insert" /\ e = KeyEsc -> "Normal"
      [] m = "WannaQuit" /\ e \in {KeyEsc, KeyChar(Ch_n), KeyChar(Ch_q)} -> "Normal"
      [] OTHER -> m

\* C1: in every tick the mode after the tick is the transition table's entry
\* for the mode before and the tick's event (unchanged without a key event
\* and for every pair the table does not list); the encoding flag changes
\* in exactly the ticks that process 'h' in Normal mode, so 'q', 'i' and 'h'
\* typed in Insert mode change neither the mode nor the encoding flag.
C1_ModeTable ==
    [][TickStep =>
          /\ mode' = TableMode(mode, ev')
          /\ (is_hex' # is_hex) <=> (mode = "Normal" /\ ev' = KeyChar(Ch_h))
          /\ (mode = "Insert" /\ ev' \in {KeyChar(Ch_q), KeyChar(Ch_i), KeyChar(Ch_h)})
                 => (mode' = "Insert" /\ is_hex' = is_hex)]_vars

\* a tick in Insert mode processed 'h': still Insert, still ascii
C1_Witness ==
    /\ ev = KeyChar(Ch_h) /\ mode = "Insert" /\ ret = "Continue" /\ ~is_hex

\* C2: a tick returns Exit only when the mode at its start is WannaQuit and
\* its key is 'y' (so never without a key event); WannaQuit is entered only
\* from Normal by 'q' or Esc and a fresh session starts in Normal, hence
\* every Exit follows such a tick with no return to Normal in between.
C2_ExitGated ==
    /\ [](ret = "None" => mode = "Normal")
    /\ [][TickStep =>
             /\ (ret' = "Exit" => (mode = "WannaQuit" /\ mode' = "WannaQuit"
                                      /\ ev' = KeyChar(Ch_y)))
             /\ (mode' = "WannaQuit" /\ mode # "WannaQuit")
                    => (mode = "Normal" /\ ev' \in {KeyEsc, KeyChar(Ch_q)})]_vars

\* a tick returned Exit
C2_Witness == ret = "Exit" /\ ev = KeyChar(Ch_y) /\ pc = "leave"

\* the last tick's query of the available bytes, if it got to it
QueryOf(ops) == {i \in 1..Len(ops) : ops[i].op = "bytes_to_read"}

\* C3 as stated: once the connectivity flag is false (a query reported 'no
\* device'), no later tick returns an error and no later tick issues a
\* device operation.
C3_AsStated ==
    [][(TickStep /\ ~connected) => (ret' # "Err" /\ io' = <<>>)]_vars

\* C3 amended: in the tick whose query reports 'no device' the connectivity
\* flag becomes false, the query is the tick's last device operation (no
\* read follows) and the tick returns its control signal, not an error;
\* the flag is false from then on.  Later ticks are not quiet: whatever the
\* flag, every tick that gets past its key handling queries the device
\* again, a transmitted key is still written to it, and the flag is
\* cleared by nothing but a 'no device' answer.
C3_DisconnectAbsorbed ==
    [][TickStep =>
          /\ \A i \in QueryOf(io') :
                io'[i].res = "NoDevice" =>
                    (~connected' /\ i = Len(io') /\ ret' # "Err"
                       /\ rx_buf' = rx_buf)
          /\ ~connected => ~connected'
          /\ (connected /\ ~connected') =>
                \E i \in QueryOf(io') : io'[i].res = "NoDevice"
          /\ (io' = <<>> \/ io'[1].op # "write_all" \/ io'[1].res = "Ok")
                => QueryOf(io') # {}
          /\ (mode = "Insert" /\ ev'.kind = "Key" /\ ev'.code \in {"Char", "Tab", "Enter"})
                => (io' # <<>> /\ io'[1].op = "write_all")]_vars

\* after the disconnect a key was written to the device and the device
\* was queried and read again
C3_Witness ==
    /\ ~connected /\ Len(io) = 3 /\ io[1].op = "write_all"
    /\ io[3].op = "read_exact" /\ io[3].data # <<>>


----------------------------------------------------------------------------
(* Reference renderings, written from section 4.3 of the specification *)

HexDigits == <<48, 49, 50, 51, 52, 53, 54, 55, 56, 57, 65, 66, 67, 68, 69, 70>>

RECURSIVE HexText(_)
HexText(bytes) ==
    IF bytes = <<>> THEN <<>>
    ELSE <<HexDigits[(Head(bytes) \div 16) + 1], HexDigits[(Head(bytes) % 16) + 1], 32>>
           \o HexText(Tail(bytes))

RECURSIVE AsciiText(_)
AsciiText(bytes) ==
    IF bytes = <<>> THEN <<>>
    ELSE (IF Head(bytes) = 9 THEN <<32, 32, 32, 32>> ELSE <<Head(bytes)>>)
           \o AsciiText(Tail(bytes))

\* the bytes the last tick's read_exact delivered
ReadOf(ops) ==
    IF ops # <<>> /\ ops[Len(ops)].op = "read_exact" /\ ops[Len(ops)].res = "Ok"
    THEN ops[Len(ops)].data ELSE <<>>

\* the byte strings the last tick wrote to the device
WritesOf(ops) ==
    IF ops # <<>> /\ ops[1].op = "write_all" THEN <<ops[1].data>> ELSE <<>>

Returned == ret \in {"Continue", "Exit"}

\* the ticks C4 is about
QuitTick ==
    /\ TickStep
    /\ \/ mode = "Normal" /\ ev' \in {KeyEsc, KeyChar(Ch_q)}
       \/ mode = "WannaQuit" /\ ev' \in {KeyEsc, KeyChar(Ch_n), KeyChar(Ch_q), KeyChar(Ch_y)}

QuitTickMode ==
    /\ mode' = (IF mode = "Normal" THEN "WannaQuit"
                ELSE IF ev' = KeyChar(Ch_y) THEN "WannaQuit" ELSE "Normal")
    /\ (ret' # "Err" => ret' = (IF mode = "WannaQuit" /\ ev' = KeyChar(Ch_y)
                                 THEN "Exit" ELSE "Continue"))

\* C4 as stated: a tick that processes 'q' or Esc in Normal, or 'y', 'n',
\* 'q' or Esc in WannaQuit, changes the mode (or yields Exit) and leaves
\* the tx display buffer, the raw history and the rx display buffer as
\* they were (ticks that fail, and the glyph that the first tick of a
\* session adds to the empty tx display buffer, are not held against it).
C4_AsStated ==
    [][QuitTick => /\ QuitTickMode
                   /\ ret' # "Err" =>
                         /\ tx_out # <<>> => tx_out' = tx_out
                         /\ rx_buf' = rx_buf
                         /\ rx_out' = rx_out]_vars

\* C4 amended: in such a tick the handling of the key mutates no buffer.
\* When the tick returns a control signal the buffers differ from before
\* only by what every tick does: the bytes drained from the device in this
\* tick are appended to the raw history and, rendered, to the rx display
\* buffer, and the trailing cursor glyph of the tx display buffer is
\* rewritten (added, on the first tick of a session).
C4_QuitKeysKeepBuffers ==
    [][QuitTick =>
          /\ QuitTickMode
          /\ is_hex' = is_hex
          /\ ret' # "Err" =>
                /\ rx_buf' = rx_buf \o ReadOf(io')
                /\ rx_out' = rx_out \o (IF is_hex THEN HexText(ReadOf(io'))
                                         ELSE AsciiText(ReadOf(io')))
                /\ tx_out' = Pop(tx_out) \o <<NORMAL>>]_vars

\* 'q' was processed in Normal mode in a tick that also drained two bytes
C4_Witness ==
    /\ mode = "WannaQuit" /\ ev = KeyChar(Ch_q) /\ ret = "Continue"
    /\ Len(ReadOf(io)) = 2 /\ Len(rx_out) >= 2

\* C5 as stated: in the fresh session and after every tick that returns a
\* control signal, the tx display buffer is the echoed characters in typing
\* order followed by exactly one glyph, that of the current cursor state.
C5_AsStated ==
    (ret = "None" \/ Returned) => tx_out = echoed \o <<Cursor_cursor(cursor)>>

\* C5 amended: after every tick that returns a control signal (the states
\* the host draws), the tx display buffer is the echoed characters in typing
\* order followed by exactly one glyph, that of the current cursor state.
\* The fresh session's tx display buffer is empty: its glyph is added by
\* the first tick.
C5_TxEndsWithGlyph ==
    /\ Returned => tx_out = echoed \o <<Cursor_cursor(cursor)>>
    /\ ret = "None" => tx_out = <<>>

\* characters were echoed and the caret has since blinked off
C5_Witness ==
    /\ Returned /\ echoed # <<>> /\ cursor.kind = "Insert" /\ ~cursor.on

\* C6: a tick that processes Tab in Insert mode issues exactly one write,
\* of the single byte 0x09; when the write succeeds the tx display buffer
\* becomes its content before the tick, four spaces, and one trailing
\* cursor glyph; when it fails the buffer is untouched.
C6_TabWire ==
    [][(TickStep /\ mode = "Insert" /\ ev' = KeyTab) =>
          /\ WritesOf(io') = <<(<<9>>)>>
          /\ Cardinality({i \in 1..Len(io') : io'[i].op = "write_all"}) = 1
          /\ IF io'[1].res = "Ok"
             THEN tx_out' = Pop(tx_out) \o <<32, 32, 32, 32>> \o <<Cursor_cursor(cursor')>>
             ELSE tx_out' = tx_out /\ ret' = "Err"]_vars

\* Tab was processed in Insert mode and echoed
C6_Witness ==
    /\ mode = "Insert" /\ ev = KeyTab /\ ret = "Continue"
    /\ tx_out = <<32, 32, 32, 32, INSERT>>

\* C7: in a tick throughout which hex mode is active and which returns a
\* control signal, the rx display buffer after the tick is the buffer
\* before it followed by two uppercase hex digits and a space for each
\* byte read in the tick, in arrival order; the bytes read are exactly the
\* new tail of the raw history.
C7_HexSuffix ==
    [][(TickStep /\ is_hex /\ is_hex' /\ ret' # "Err") =>
          /\ rx_buf' = rx_buf \o ReadOf(io')
          /\ rx_out' = rx_out \o HexText(ReadOf(io'))]_vars

\* two bytes were read in one tick in hex mode
C7_Witness ==
    /\ is_hex /\ ev.kind # "Key" /\ ret = "Continue"
    /\ Len(ReadOf(io)) = 2 /\ Len(rx_out) = 6

\* C8: in every state of a live session in ascii mode, toggling the
\* encoding twice gives back the rx display buffer exactly, the first
\* toggle showing the hex rendering of the raw history; and every tick that
\* toggles the encoding flips the flag, keeps the raw history apart from
\* the bytes it reads, and leaves the rendering of the whole raw history
\* under the new encoding (a tab byte as four spaces in ascii).
C8_ToggleRoundTrip ==
    /\ []((~is_hex /\ ret # "Err") =>
             LET a1 == switch_hex(App)
                 a2 == switch_hex(a1)
             IN  /\ a1.is_hex /\ a1.rx_buf = rx_buf /\ a1.rx_out = HexText(rx_buf)
                 /\ ~a2.is_hex /\ a2.rx_buf = rx_buf /\ a2.rx_out = rx_out
                 /\ rx_out = AsciiText(rx_buf))
    /\ [][(TickStep /\ mode = "Normal" /\ ev' = KeyChar(Ch_h) /\ ret' # "Err") =>
             /\ is_hex' = ~is_hex
             /\ rx_buf' = rx_buf \o ReadOf(io')
             /\ rx_out' = (IF is_hex' THEN HexText(rx_buf') ELSE AsciiText(rx_buf'))]_vars

\* a tick toggled back to ascii with a tab byte in the raw history and no
\* new bytes
C8_Witness ==
    /\ ~is_hex /\ ev = KeyChar(Ch_h) /\ ret = "Continue" /\ ReadOf(io) = <<>>
    /\ \E i \in 1..Len(rx_buf) : rx_buf[i] = 9

\* C9: every tick that carries a key event, ends in Insert mode and returns
\* a control signal (the tick that enters Insert mode, and every key typed
\* in it) ends with the visible thin bar as the glyph and an accumulated
\* idle time of zero; the one key that leaves Insert mode, Esc, ends with
\* the solid block and no timing state, so no key typed in Insert mode
\* ends with the blank glyph.
C9_KeyShowsCaret ==
    [][(TickStep /\ ev'.kind = "Key" /\ ret' # "Err") =>
          /\ mode' = "Insert" =>
                /\ cursor'.kind = "Insert" /\ cursor'.on /\ cursor'.timer = 0
                /\ tx_out'[Len(tx_out')] = INSERT
          /\ (mode = "Insert" /\ mode' # "Insert") =>
                /\ ev' = KeyEsc /\ cursor' = Cursor_normal
                /\ tx_out'[Len(tx_out')] = NORMAL]_vars

\* 'i', then an idle tick longer than the blink interval (the caret goes
\* blank), then a key typed in Insert mode
C9_Witness ==
    /\ mode = "Insert" /\ ev = KeyChar(Ch_n) /\ ret = "Continue" /\ ticks = 3
    /\ cursor.on /\ cursor.timer = 0 /\ now > BLINK_SPEED

\* C10: whenever the mode is Normal the cursor's glyph is the solid block,
\* and after every tick that returns a control signal in Normal mode the
\* solid block is the last character of the tx display buffer.
C10_NormalIsSolid ==
    mode = "Normal" =>
        /\ Cursor_cursor(cursor) = NORMAL
        /\ Returned => (tx_out # <<>> /\ tx_out[Len(tx_out)] = NORMAL)

\* back in Normal mode after characters were typed in Insert mode
C10_Witness ==
    /\ mode = "Normal" /\ ev = KeyEsc /\ ret = "Continue" /\ echoed # <<>>

----------------------------------------------------------------------------
\* the device operations of a tick that failed with an error other than
\* 'no device'
FailedOps(ops) == {i \in 1..Len(ops) : ops[i].res = "Err"}

\* C11: a tick returns an error exactly when one of its device operations
\* (write, query or read) failed with an error other than 'no device'; the
\* failing operation is the last one the tick issues, no operation is issued
\* twice, the connectivity flag is as before the tick, and the host loop
\* ends with that error.
C11_ErrorsAreFatal ==
    [][TickStep =>
         /\ ret' = "Err" <=> FailedOps(io') # {}
         /\ FailedOps(io') # {} =>
               /\ FailedOps(io') = {Len(io')}
               /\ \A i, j \in 1..Len(io') : io'[i].op = io'[j].op => i = j
               /\ connected' = connected
               /\ pc' = "leave"
               /\ loop_res' = "UpdateErr"]_vars

\* a tick that wrote a character, queried the device and failed in the read
C11_Witness ==
    /\ ret = "Err"
    /\ connected
    /\ Len(io) = 3
    /\ io[3].op = "read_exact"
    /\ io[3].res = "Err"


----------------------------------------------------------------------------
\* C12: in every state reachable from a fresh session, whatever the key
\* events and the device's answers were, the mode is one of Normal, Insert
\* and WannaQuit, never Config.
C12_ConfigUnreachable == mode \in Mode \ {"Config"}

\* three ticks in, with the device gone, a key that no arm of the dispatcher
\* names was pressed at the quit confirmation
C12_Witness ==
    /\ ticks = 3
    /\ ~connected
    /\ mode = "WannaQuit"
    /\ ev = KeyOf("F1", 0)

----------------------------------------------------------------------------
\* the idle time a tick has accumulated before the interval is subtracted:
\* a flip of the visibility took BLINK_SPEED off it
IdleBeforeSubtraction ==
    cursor'.timer + (IF cursor'.on # cursor.on THEN BLINK_SPEED ELSE 0)

\* C13: on every Insert-mode tick without a key press the accumulated idle
\* time, before any interval subtraction, is what it was after the previous
\* tick plus the wall-clock time elapsed since the previous tick, also when
\* the previous tick carried a key press (which left it at zero).
C13_IdleTimeSincePreviousTick ==
    [][(TickStep /\ cursor.kind = "Insert" /\ ev'.kind # "Key" /\ ret' # "Err")
          => IdleBeforeSubtraction = cursor.timer + (now' - now)]_vars

----------------------------------------------------------------------------
\* an Insert-mode tick without a key press that returns a control signal
IdleInsertTick ==
    TickStep /\ cursor.kind = "Insert" /\ ev'.kind # "Key" /\ ret' # "Err"

\* the accumulated idle time of such a tick once the elapsed time the
\* cursor measured is added
Accumulated == cursor.timer + (now' - cursor.last)

\* C14: in an Insert-mode tick without a key press, if the accumulated idle
\* time with the elapsed time added is greater than 500 ms the visibility
\* flips, once, and the accumulated time is that value less 500 ms; if it is
\* 500 ms or less the visibility is kept and the accumulated time is that
\* value; the glyph shown follows the visibility.  The tick that enters
\* Insert leaves the caret visible with no idle time accumulated, so it stays
\* visible until the accumulated time first exceeds 500 ms.
C14_BlinkStep ==
    /\ [][IdleInsertTick =>
            /\ Accumulated > 500 =>
                 cursor'.on = ~cursor.on /\ cursor'.timer = Accumulated - 500
            /\ Accumulated <= 500 =>
                 cursor'.on = cursor.on /\ cursor'.timer = Accumulated
            /\ tx_out'[Len(tx_out')] = (IF cursor'.on THEN INSERT ELSE SPACE)]_vars
    /\ [][(TickStep /\ mode # "Insert" /\ mode' = "Insert") =>
            (cursor'.on /\ cursor'.timer = 0 /\ cursor'.last = now')]_vars

\* two idle ticks of 250 ms after entering Insert: the accumulated time is
\* exactly the interval and the caret is still visible
C14_Witness ==
    /\ mode = "Insert"
    /\ ev.kind # "Key"
    /\ cursor.timer = 500
    /\ cursor.on
    /\ tx_out = <<INSERT>>

----------------------------------------------------------------------------
\* a tick whose query reports 'no device'
NoDeviceTick ==
    TickStep /\ \E i \in QueryOf(io') : io'[i].res = "NoDevice"

\* the control signal the dispatcher produces for an event in a mode
TableCtl(m, e) == IF m = "WannaQuit" /\ e = KeyChar(Ch_y) THEN "Exit" ELSE "Continue"

\* C15: in a tick whose query reports 'no device' the connectivity flag is
\* false afterwards, the query is the tick's last device operation (no read
\* is issued), the raw history is unchanged, the rx display buffer is what
\* the dispatcher left (unchanged, or re-rendered from the unchanged history
\* when the key toggled the encoding), and the tick returns the control
\* signal of the dispatcher for its key, not an error.
C15_NoDeviceTick ==
    [][NoDeviceTick =>
         /\ ~connected'
         /\ io'[Len(io')].op = "bytes_to_read"
         /\ \A i \in 1..Len(io') : io'[i].op # "read_exact"
         /\ rx_buf' = rx_buf
         /\ rx_out' = (IF is_hex' = is_hex THEN rx_out
                       ELSE IF is_hex' THEN HexText(rx_buf) ELSE AsciiText(rx_buf))
         /\ ret' = TableCtl(mode, ev')]_vars

\* the device went away in the very tick in which the quit was confirmed,
\* with received text on display
C15_Witness ==
    /\ ret = "Exit"
    /\ ~connected
    /\ io # <<>>
    /\ io[Len(io)].res = "NoDevice"
    /\ rx_out # <<>>

----------------------------------------------------------------------------
\* a tick that transmits: a character, Tab or Enter typed in Insert mode
SendTick ==
    TickStep /\ mode = "Insert" /\ ev'.kind = "Key" /\ ev'.code \in {"Char", "Tab", "Enter"}

\* the UTF-8 encoding of what a key transmits
WireOf(e) ==
    CASE e.code = "Tab" -> <<9>>
      [] e.code = "Enter" -> <<10>>
      [] e.code = "Char" /\ e.ch = 233 -> <<195, 169>>
      [] OTHER -> <<e.ch>>

\* what a transmitted key shows in the tx display buffer
ShownOf(e) ==
    CASE e.code = "Tab" -> <<32, 32, 32, 32>>
      [] e.code = "Enter" -> <<10>>
      [] OTHER -> <<e.ch>>

\* C16: a tick that transmits a character issues, as its first device
\* operation and only once, a write of the character's complete encoding;
\* if the write fails the tx display buffer is as before the tick, nothing
\* else is asked of the device and the tick returns the error; if it
\* succeeds the text shown for the character is put where the glyph was.
C16_WriteThenEcho ==
    [][SendTick =>
         /\ io' # <<>>
         /\ io'[1] = IoOp("write_all", io'[1].res, Len(WireOf(ev')), WireOf(ev'))
         /\ \A i \in 2..Len(io') : io'[i].op # "write_all"
         /\ io'[1].res = "Err" => (tx_out' = tx_out /\ ret' = "Err" /\ Len(io') = 1)
         /\ io'[1].res = "Ok" => Pop(tx_out') = Pop(tx_out) \o ShownOf(ev')]_vars

\* the write of a two-byte character failed after an earlier character had
\* been echoed
C16_Witness ==
    /\ ret = "Err"
    /\ io = <<IoOp("write_all", "Err", 2, <<195, 169>>)>>
    /\ Len(tx_out) = 2
    /\ mode = "Insert"

----------------------------------------------------------------------------
\* the positions of a tick's reads
ReadsOf(ops) == {i \in 1..Len(ops) : ops[i].op = "read_exact"}

\* C17: across every tick the raw history before is a prefix of the raw
\* history after; a successful read follows a query that reported as many
\* bytes as the read delivered, and the history after is the history before
\* followed by those bytes in the order delivered; a tick that issues no
\* read, whatever its key, leaves the history as it was.
C17_HistoryAppendOnly ==
    [][TickStep =>
         /\ Len(rx_buf') >= Len(rx_buf)
         /\ SubSeq(rx_buf', 1, Len(rx_buf)) = rx_buf
         /\ \A i \in ReadsOf(io') :
              /\ i - 1 \in QueryOf(io')
              /\ io'[i - 1].n = io'[i].n
              /\ io'[i].res = "Ok" =>
                   /\ Len(io'[i].data) = io'[i].n
                   /\ Len(rx_buf') = Len(rx_buf) + io'[i].n
                   /\ rx_buf' = rx_buf \o io'[i].data
         /\ ReadsOf(io') = {} => rx_buf' = rx_buf]_vars

\* a byte arrived in the tick of an encoding toggle and was put after a
\* different byte received earlier
C17_Witness ==
    /\ ev = KeyChar(Ch_h)
    /\ Len(ReadOf(io)) = 1
    /\ Len(rx_buf) = 2
    /\ rx_buf[1] # rx_buf[2]

----------------------------------------------------------------------------
\* C18: whenever the last tick returned a control signal, the rx display
\* buffer is the rendering of the whole raw history under the encoding flag
\* as it is now: the hex text when the flag is set, the ASCII text otherwise.
C18_DisplayIsRendering ==
    Returned => rx_out = (IF is_hex THEN HexText(rx_buf) ELSE AsciiText(rx_buf))

\* the third tick toggled the display to hex and brought a new byte, after a
\* tab received in an earlier tick
C18_Witness ==
    /\ Returned
    /\ ticks = 3
    /\ is_hex
    /\ ev = KeyChar(Ch_h)
    /\ Len(ReadOf(io)) = 1
    /\ Len(rx_buf) = 2
    /\ rx_buf[1] = 9

----------------------------------------------------------------------------
\* C19: the connectivity flag is true in a fresh session, before any tick,
\* and no step takes it from false to true: once false it is false in every
\* later state, whatever the device answers afterwards.
C19_ConnectedMonotone ==
    /\ [](ticks = 0 => connected)
    /\ [][~connected => ~connected']_vars

\* the flag is false after a tick in which the device answered the query
\* again and delivered a byte
C19_Witness ==
    /\ ~connected
    /\ Returned
    /\ Len(io) = 2
    /\ io[1].res = "Ok"
    /\ Len(ReadOf(io)) = 1

----------------------------------------------------------------------------
\* What holds of run_app's loop: a tick that returns Continue is followed by
\* a draw, a tick that returns Exit or an error goes straight to leave_tui;
\* after that no tick and no draw is run; run_app returns only through
\* leave_tui; and when leave_tui succeeds run_app returns the loop's result.
LoopStops ==
    /\ [][TickStep => pc' = (IF ret' = "Continue" THEN "draw" ELSE "leave")]_vars
    /\ [][(pc \in {"leave", "done"}) =>
            (ticks' = ticks /\ pc' \in {"leave", "done"})]_vars
    /\ [][(pc' = "done") => (pc \in {"leave", "done"})]_vars
    /\ [](pc = "done" => out \in {loop_res, "LeaveErr"})

\* C20: the loop runs a draw after a tick that returns Continue and stops at
\* the first tick that returns Exit or an error, with no tick and no draw
\* after it; run_app returns only after leave_tui has run; and when the last
\* tick returned an error, that error is what run_app returns.
C20_AsStated ==
    /\ [][TickStep => pc' = (IF ret' = "Continue" THEN "draw" ELSE "leave")]_vars
    /\ [][(pc \in {"leave", "done"}) =>
            (ticks' = ticks /\ pc' \in {"leave", "done"})]_vars
    /\ [][(pc' = "done") => (pc \in {"leave", "done"})]_vars
    /\ [](pc = "done" /\ ret = "Err" => out = "UpdateErr")

=============================================================================
